---- MODULE Spec2Model ----
(***************************************************************************)
(* Cat and Mouse (src/minimax.py): a cat chases a mouse on an 8x8 board.   *)
(* The cat moves by a depth-bounded minimax search with alpha-beta pruning *)
(* (move_cat), the mouse by a one-ply heuristic (move_mouse); main() runs  *)
(* the turn loop and reports the outcome.                                  *)
(*                                                                         *)
(* random.choice(xs) is modelled as a nondeterministic choice in xs: the   *)
(* policies return the set of positions the call can return.               *)
(***************************************************************************)
EXTENDS Integers, Sequences, FiniteSets, TLC

VARIABLES cat_pos, mouse_pos, escape_pos, move_count, turns, running,
          reported, stopped, call

vars == <<cat_pos, mouse_pos, escape_pos, move_count, turns, running,
          reported, stopped, call>>

game_vars == <<cat_pos, mouse_pos, escape_pos, move_count, turns, running,
               reported, stopped>>

----------------------------------------------------------------------------
(* Program constants *)

BOARD_SIZE == 8

\* depth=3 in the call of main()
SEARCH_DEPTH == 3

\* if move_count >= 20
SURVIVAL_LIMIT == 20

\* calculate_manhattan_distance(cat_pos, mouse_pos) >= 4
MIN_START_DISTANCE == 4

\* min_distance = 5
MIN_ESCAPE_DISTANCE == 5

\* return capture_moves[0], 1000
CAPTURE_SCORE == 1000

\* float("inf"): larger than any score the search can produce
Inf == 1000000

\* None, the move returned by a leaf of the search
NoMove == <<>>

----------------------------------------------------------------------------
(* Bounds of the model *)

\* largest depth passed to move_cat when the capture shortcut is examined
MaxDepth == 3

\* the setups explored by the game place the escape square on the top edge,
\* in columns 1..MaxEscapeCol
MaxEscapeCol == 1

----------------------------------------------------------------------------
(* Geometry *)

Abs(x) == IF x < 0 THEN -x ELSE x

Max2(a, b) == IF a >= b THEN a ELSE b

Min2(a, b) == IF a <= b THEN a ELSE b

Range(s) == {s[i] : i \in 1..Len(s)}

Contains(s, x) == \E i \in 1..Len(s) : s[i] = x

Pos == (0..(BOARD_SIZE - 1)) \X (0..(BOARD_SIZE - 1))

InBounds(p) == /\ 0 <= p[1] /\ p[1] < BOARD_SIZE
               /\ 0 <= p[2] /\ p[2] < BOARD_SIZE

calculate_manhattan_distance(pos1, pos2) ==
    Abs(pos1[1] - pos2[1]) + Abs(pos1[2] - pos2[2])

\* the offsets in the order the three list comprehensions enumerate them
Offsets == << <<-1, 0>>, <<1, 0>>, <<0, -1>>, <<0, 1>>,
              <<-1, -1>>, <<-1, 1>>, <<1, -1>>, <<1, 1>> >>

NeighboursUnclipped(pos) ==
    [i \in 1..Len(Offsets) |-> <<pos[1] + Offsets[i][1], pos[2] + Offsets[i][2]>>]

\* the bound test written with <= BOARD_SIZE
InBoundsLoose(p) == /\ 0 <= p[1] /\ p[1] <= BOARD_SIZE
                    /\ 0 <= p[2] /\ p[2] <= BOARD_SIZE

NeighboursLoose(pos) == SelectSeq(NeighboursUnclipped(pos), InBoundsLoose)

\* the board-clipped king moves of pos, in enumeration order
Neighbours(pos) == SelectSeq(NeighboursUnclipped(pos), InBounds)

Corners == { <<0, 0>>, <<0, BOARD_SIZE - 1>>, <<BOARD_SIZE - 1, 0>>,
             <<BOARD_SIZE - 1, BOARD_SIZE - 1>> }

----------------------------------------------------------------------------
(* Terminal conditions *)

cat_caught_mouse(c, m) == c = m

mouse_escaped(m, e) == m = e

SurvivalLimitReachedOff(count) == count > SURVIVAL_LIMIT

SurvivalLimitReached(count) == count >= SURVIVAL_LIMIT

----------------------------------------------------------------------------
(* Setup: random_edge_pos *)

\* positions = [(0, i), (i, 7), (7, i), (i, 0)] for i in range(8), flattened
EdgeSeq ==
    [k \in 1..(4 * BOARD_SIZE) |->
        LET i == (k - 1) \div 4
            j == (k - 1) % 4
        IN CASE j = 0 -> <<0, i>>
             [] j = 1 -> <<i, BOARD_SIZE - 1>>
             [] j = 2 -> <<BOARD_SIZE - 1, i>>
             [] OTHER -> <<i, 0>>]

Edge == Range(EdgeSeq)

RECURSIVE FarthestFrom(_, _, _, _, _)
\* the fallback loop: the first position of s at the largest distance
FarthestFrom(s, i, m, max_distance, farthest_pos) ==
    IF i > Len(s) THEN farthest_pos
    ELSE LET dist == calculate_manhattan_distance(s[i], m)
         IN IF dist > max_distance
            THEN FarthestFrom(s, i + 1, m, dist, s[i])
            ELSE FarthestFrom(s, i + 1, m, max_distance, farthest_pos)

\* the set of positions random_edge_pos can return
random_edge_pos(m, min_distance) ==
    LET possible_positions ==
            {p \in Edge : calculate_manhattan_distance(p, m) >= min_distance}
    IN IF possible_positions = {}
       THEN {FarthestFrom(EdgeSeq, 1, m, -1, NoMove)}
       ELSE possible_positions

----------------------------------------------------------------------------
(* Pursuer search: move_cat *)

\* capture_moves with only the four orthogonal offsets
CaptureMovesOrthogonal(c, m) ==
    LET IsMouse(p) == p = m /\ InBounds(p)
    IN SelectSeq(SubSeq(NeighboursUnclipped(c), 1, 4), IsMouse)

\* capture_moves with the lower bound test written 0 < instead of 0 <=
CaptureMovesStrictBounds(c, m) ==
    LET IsMouse(p) == p = m /\ 0 < p[1] /\ p[1] < BOARD_SIZE
                            /\ 0 < p[2] /\ p[2] < BOARD_SIZE
    IN SelectSeq(NeighboursUnclipped(c), IsMouse)

\* capture_moves: the offsets of cat_pos that hit mouse_pos and are in bounds
CaptureMoves(c, m) ==
    LET IsMouse(p) == p = m /\ InBounds(p)
    IN SelectSeq(NeighboursUnclipped(c), IsMouse)

LeafScoreSwapped(c, m, e) ==
    (-calculate_manhattan_distance(c, m) * 8)
        + (-calculate_manhattan_distance(c, e) * 15)

\* distance_to_mouse + distance_to_escape
LeafScore(c, m, e) ==
    (-calculate_manhattan_distance(c, m) * 15)
        + (-calculate_manhattan_distance(c, e) * 8)

RECURSIVE move_cat(_, _, _, _, _, _, _)
RECURSIVE MaxLoop(_, _, _, _, _, _, _, _, _)
RECURSIVE MinLoop(_, _, _, _, _, _, _, _, _)

\* the loop of the maximizing branch from the i-th move on; best_moves is a
\* set because random.choice only depends on which moves are listed
MaxLoop(possible_moves, i, m, e, depth, alpha, beta, max_eval, best_moves) ==
    IF i > Len(possible_moves)
    THEN [moves |-> best_moves, eval |-> max_eval]
    ELSE LET move == possible_moves[i]
             eval_score == move_cat(move, m, e, depth - 1, alpha, beta, FALSE).eval
             new_eval == IF eval_score > max_eval THEN eval_score ELSE max_eval
             new_best == IF eval_score > max_eval THEN {move}
                         ELSE IF eval_score = max_eval
                              THEN best_moves \cup {move}
                              ELSE best_moves
             new_alpha == Max2(alpha, eval_score)
         IN IF beta <= new_alpha
            THEN [moves |-> new_best, eval |-> new_eval]
            ELSE MaxLoop(possible_moves, i + 1, m, e, depth, new_alpha, beta,
                         new_eval, new_best)

\* the loop of the minimizing branch from the i-th move on
MinLoop(possible_moves, i, m, e, depth, alpha, beta, min_eval, best_moves) ==
    IF i > Len(possible_moves)
    THEN [moves |-> best_moves, eval |-> min_eval]
    ELSE LET move == possible_moves[i]
             eval_score == move_cat(move, m, e, depth - 1, alpha, beta, TRUE).eval
             new_eval == IF eval_score < min_eval THEN eval_score ELSE min_eval
             new_best == IF eval_score < min_eval THEN {move}
                         ELSE IF eval_score = min_eval
                              THEN best_moves \cup {move}
                              ELSE best_moves
             new_beta == Min2(beta, eval_score)
         IN IF new_beta <= alpha
            THEN [moves |-> new_best, eval |-> new_eval]
            ELSE MinLoop(possible_moves, i + 1, m, e, depth, alpha, new_beta,
                         new_eval, new_best)

\* [moves |-> the moves the call can return, eval |-> the score it returns].
\* With no legal move random.choice([]) raises: moves is then empty.
move_cat(c, m, e, depth, alpha, beta, maximizing_player) ==
    LET capture_moves == CaptureMoves(c, m)
    IN IF capture_moves # <<>>
       THEN [moves |-> {capture_moves[1]}, eval |-> CAPTURE_SCORE]
       ELSE IF depth = 0 \/ cat_caught_mouse(c, m)
       THEN [moves |-> {NoMove}, eval |-> LeafScore(c, m, e)]
       ELSE IF maximizing_player
       THEN MaxLoop(Neighbours(c), 1, m, e, depth, alpha, beta, -Inf, {})
       ELSE MinLoop(Neighbours(c), 1, m, e, depth, alpha, beta, Inf, {})

----------------------------------------------------------------------------
(* Evader policy: move_mouse *)

\* possible_moves.remove(x): drops the first occurrence of x
Remove(s, x) == LET Keep(p) == p # x IN SelectSeq(s, Keep)

EvaluationMovesAll(safe_moves, possible_moves) == possible_moves

\* safe_moves if safe_moves else possible_moves
EvaluationMoves(safe_moves, possible_moves) ==
    IF safe_moves # <<>> THEN safe_moves ELSE possible_moves

RECURSIVE FirstMax(_, _, _, _)
\* max(s, key=distance to c): the first element with the largest key
FirstMax(s, i, c, best) ==
    IF i > Len(s) THEN best
    ELSE IF calculate_manhattan_distance(s[i], c)
             > calculate_manhattan_distance(best, c)
         THEN FirstMax(s, i + 1, c, s[i])
         ELSE FirstMax(s, i + 1, c, best)

\* score of one candidate in the scored branch
MouseScore(move, m, c, e, safe_moves) ==
    LET cat_distance == calculate_manhattan_distance(move, c)
        current_distance == calculate_manhattan_distance(m, e)
        new_distance == calculate_manhattan_distance(move, e)
        escape_progress == current_distance - new_distance
        corner_penalty == IF move \in Corners THEN -3 ELSE 0
        escape_weight == 2
        safe_bonus == IF Contains(safe_moves, move) THEN 5 ELSE 0
    IN cat_distance + (escape_weight * escape_progress) + corner_penalty
         + safe_bonus

RECURSIVE ScoreLoop(_, _, _, _, _, _, _, _)
\* the scoring loop from the i-th candidate on
ScoreLoop(evaluation_moves, i, m, c, e, safe_moves, best_score, best_moves) ==
    IF i > Len(evaluation_moves) THEN best_moves
    ELSE LET move == evaluation_moves[i]
             score == MouseScore(move, m, c, e, safe_moves)
         IN IF score > best_score
            THEN ScoreLoop(evaluation_moves, i + 1, m, c, e, safe_moves,
                           score, {move})
            ELSE IF score = best_score
            THEN ScoreLoop(evaluation_moves, i + 1, m, c, e, safe_moves,
                           best_score, best_moves \cup {move})
            ELSE ScoreLoop(evaluation_moves, i + 1, m, c, e, safe_moves,
                           best_score, best_moves)

\* the set of positions move_mouse(m, c, e) can return
move_mouse(m, c, e) ==
    LET all_moves == Neighbours(m)
        possible_moves == Remove(all_moves, c)
        cat_next_moves == Neighbours(c)
        IsSafe(p) == ~Contains(cat_next_moves, p)
        safe_moves == SelectSeq(possible_moves, IsSafe)
        evaluation_moves == EvaluationMoves(safe_moves, possible_moves)
        best_moves ==
            IF evaluation_moves = <<>> THEN {}
            ELSE IF safe_moves = <<>>
            THEN {FirstMax(possible_moves, 2, c, possible_moves[1])}
            ELSE ScoreLoop(evaluation_moves, 1, m, c, e, safe_moves, -Inf, {})
    IN IF Contains(all_moves, e) THEN {e}
       ELSE IF best_moves # {} THEN best_moves
       ELSE {m}

----------------------------------------------------------------------------
(* The game: main *)

\* the policy call under examination: none during a game
NoCall == [fn |-> "none"]

EscapeCells == {<<0, col>> : col \in 1..MaxEscapeCol}

\* the state after setup, for the escape squares explored
Init ==
    /\ cat_pos \in Pos
    /\ mouse_pos \in Pos
    /\ calculate_manhattan_distance(cat_pos, mouse_pos) >= MIN_START_DISTANCE
    /\ escape_pos \in random_edge_pos(mouse_pos, MIN_ESCAPE_DISTANCE) \cap EscapeCells
    /\ move_count = 0
    /\ turns = 0
    /\ running = TRUE
    /\ reported = <<>>
    /\ stopped = FALSE
    /\ call = NoCall

\* one iteration of the loop on an even turn; quit is the pygame.QUIT event,
\* stopped records that the event alone ended the game
CatTurn ==
    /\ running
    /\ turns % 2 = 0
    /\ \E best_move \in move_cat(cat_pos, mouse_pos, escape_pos, SEARCH_DEPTH,
                                 -Inf, Inf, TRUE).moves :
         LET new_cat == IF best_move # NoMove THEN best_move ELSE cat_pos
             caught == cat_caught_mouse(new_cat, mouse_pos)
         IN /\ cat_pos' = new_cat
            /\ reported' = IF caught THEN Append(reported, "CatWins")
                           ELSE reported
            /\ \E quit \in BOOLEAN :
                 /\ running' = (~caught /\ ~quit)
                 /\ stopped' = (~caught /\ quit)
    /\ turns' = turns + 1
    /\ UNCHANGED <<mouse_pos, escape_pos, move_count, call>>

\* one iteration of the loop on an odd turn
MouseTurn ==
    /\ running
    /\ turns % 2 = 1
    /\ \E new_mouse \in move_mouse(mouse_pos, cat_pos, escape_pos) :
         LET caught == cat_caught_mouse(cat_pos, new_mouse)
             escaped == ~caught /\ mouse_escaped(new_mouse, escape_pos)
             survived == SurvivalLimitReached(move_count + 1)
             r1 == IF caught THEN Append(reported, "CatWins")
                   ELSE IF escaped THEN Append(reported, "MouseEscaped")
                   ELSE reported
             over == caught \/ escaped \/ survived
         IN /\ mouse_pos' = new_mouse
            /\ move_count' = move_count + 1
            /\ reported' = IF survived THEN Append(r1, "MouseSurvived") ELSE r1
            /\ \E quit \in BOOLEAN :
                 /\ running' = (~over /\ ~quit)
                 /\ stopped' = (~over /\ quit)
    /\ turns' = turns + 1
    /\ UNCHANGED <<cat_pos, escape_pos, call>>

Next == CatTurn \/ MouseTurn

Spec == Init /\ [][Next]_vars

----------------------------------------------------------------------------
(* The policies called on arbitrary positions.  The positions are held in  *)
(* cat_pos, mouse_pos and escape_pos; call records the arguments that are  *)
(* not positions and what the call returns.                                *)

Idle ==
    /\ move_count = 0
    /\ turns = 0
    /\ running = TRUE
    /\ reported = <<>>
    /\ stopped = FALSE
    /\ call = NoCall

\* sample values for alpha and beta
Windows == {-Inf, 0, Inf}

\* move_cat with the mouse on a neighbour of the cat
InitCapture ==
    /\ cat_pos \in Pos
    /\ mouse_pos \in Range(Neighbours(cat_pos))
    /\ escape_pos \in Edge
    /\ Idle

CallMoveCat ==
    /\ call = NoCall
    /\ \E depth \in 0..MaxDepth, alpha \in Windows, beta \in Windows,
          maximizing_player \in BOOLEAN :
         LET r == move_cat(cat_pos, mouse_pos, escape_pos, depth, alpha, beta,
                           maximizing_player)
         IN call' = [fn |-> "move_cat", depth |-> depth, alpha |-> alpha,
                     beta |-> beta, maximizing_player |-> maximizing_player,
                     moves |-> r.moves, eval |-> r.eval]
    /\ UNCHANGED game_vars

SpecCapture == InitCapture /\ [][CallMoveCat]_vars

\* move_cat at depth 0 on any positions
InitLeaf ==
    /\ cat_pos \in Pos
    /\ mouse_pos \in Pos
    /\ escape_pos \in Pos
    /\ Idle

CallMoveCatLeaf ==
    /\ call = NoCall
    /\ \E maximizing_player \in BOOLEAN :
         LET r == move_cat(cat_pos, mouse_pos, escape_pos, 0, -Inf, Inf,
                           maximizing_player)
         IN call' = [fn |-> "move_cat", depth |-> 0, alpha |-> -Inf,
                     beta |-> Inf, maximizing_player |-> maximizing_player,
                     moves |-> r.moves, eval |-> r.eval]
    /\ UNCHANGED game_vars

SpecLeaf == InitLeaf /\ [][CallMoveCatLeaf]_vars

\* move_mouse on any positions
InitMouse ==
    /\ cat_pos \in Pos
    /\ mouse_pos \in Pos
    /\ escape_pos \in Pos
    /\ Idle

CallMoveMouse ==
    /\ call = NoCall
    /\ LET choices == move_mouse(mouse_pos, cat_pos, escape_pos)
       IN \E move \in choices :
            call' = [fn |-> "move_mouse", move |-> move, choices |-> choices]
    /\ UNCHANGED game_vars

SpecMouse == InitMouse /\ [][CallMoveMouse]_vars

----------------------------------------------------------------------------
(* Properties *)

\* p is a king-move neighbour of q
IsKingNeighbour(p, q) ==
    Max2(Abs(p[1] - q[1]), Abs(p[2] - q[2])) = 1

Last(s) == s[Len(s)]

\* C1: the game reports MouseSurvived exactly when the mouse has completed 20
\* moves: never while the move count is below 20, the count never exceeds 20,
\* a game whose count reaches 20 has stopped with that report, and the turn
\* index never runs ahead of the move count (no game has more than 40 turns).
C1_SurvivalAtTwenty ==
    /\ move_count <= 20
    /\ turns \in {2 * move_count, 2 * move_count + 1}
    /\ Contains(reported, "MouseSurvived") <=> move_count = 20
    /\ move_count = 20 => ~running /\ Last(reported) = "MouseSurvived"

\* a game that ran 20 mouse moves with neither capture nor escape
C1_Witness ==
    /\ move_count = 20
    /\ reported = <<"MouseSurvived">>
    /\ ~running
    /\ ~stopped

\* C2: on a mouse turn on which capture or escape fires the move count is not
\* incremented and MouseSurvived is not reported, and a game that ends
\* without a stop signal has reported exactly one outcome.
C2_OneOutcomePerGame ==
    [][(running /\ turns % 2 = 1) =>
          LET fired == \/ cat_caught_mouse(cat_pos, mouse_pos')
                       \/ mouse_escaped(mouse_pos', escape_pos)
          IN /\ fired => /\ move_count' = move_count
                         /\ ~Contains(reported', "MouseSurvived")
             /\ (~running' /\ ~stopped') => Len(reported') = 1]_vars

\* C3: on its turn the mouse never moves onto the cell the cat stands on.
C3_NeverOntoCat ==
    [][(running /\ turns % 2 = 1) => mouse_pos' # cat_pos]_vars

\* C4: with the mouse on a king-move neighbour of the cat, move_cat returns
\* the mouse's cell and the score 1000, whatever depth, alpha, beta and
\* maximizing flag it is given.
C4_CaptureShortcut ==
    (call.fn = "move_cat" /\ IsKingNeighbour(mouse_pos, cat_pos)) =>
        /\ call.moves = {mouse_pos}
        /\ call.eval = 1000

\* the shortcut taken at the largest depth, on a minimizing ply, with a
\* closed window and the mouse on a diagonal neighbour
C4_Witness ==
    /\ call.fn = "move_cat"
    /\ call.depth = MaxDepth
    /\ ~call.maximizing_player
    /\ call.beta <= call.alpha
    /\ Abs(mouse_pos[1] - cat_pos[1]) = 1
    /\ Abs(mouse_pos[2] - cat_pos[2]) = 1
    /\ call.moves = {mouse_pos}

\* the result of a leaf: no move, and the score of the cat's own position
LeafResult ==
    /\ call.moves = {NoMove}
    /\ call.eval = (-15 * calculate_manhattan_distance(cat_pos, mouse_pos))
                     - (8 * calculate_manhattan_distance(cat_pos, escape_pos))

\* C5 as stated: at depth 0 move_cat returns no move and the score
\* -15*manhattan(cat, mouse) - 8*manhattan(cat, escape), for all positions.
C5_LeafAtDepthZero ==
    (call.fn = "move_cat" /\ call.depth = 0) => LeafResult

\* C5 amended: at depth 0 move_cat returns no move and that score whenever
\* the mouse is not on a king-move neighbour of the cat.
C5_LeafUnlessAdjacent ==
    (call.fn = "move_cat" /\ call.depth = 0
        /\ ~IsKingNeighbour(mouse_pos, cat_pos)) => LeafResult

\* a depth-0 call with the mouse away from the cat and both away from the
\* escape square
C5_Witness ==
    /\ call.fn = "move_cat"
    /\ call.depth = 0
    /\ calculate_manhattan_distance(cat_pos, mouse_pos) >= 4
    /\ cat_pos # escape_pos
    /\ call.moves = {NoMove}

RECURSIVE Minimax(_, _, _, _, _)
\* the value of a node of the depth-bounded tree move_cat searches, by plain
\* minimax without pruning
Minimax(c, m, e, depth, maximizing_player) ==
    IF CaptureMoves(c, m) # <<>> THEN CAPTURE_SCORE
    ELSE IF depth = 0 \/ cat_caught_mouse(c, m) THEN LeafScore(c, m, e)
    ELSE LET children == {Minimax(n, m, e, depth - 1, ~maximizing_player) :
                              n \in Range(Neighbours(c))}
         IN IF maximizing_player
            THEN CHOOSE v \in children : \A w \in children : w <= v
            ELSE CHOOSE v \in children : \A w \in children : v <= w

\* C6: on the cat's turn, with the mouse neither on nor next to the cat, the
\* score move_cat returns is the plain minimax value of the position and
\* every move it can return attains that value.
C6_ReturnsBestMove ==
    (running /\ turns % 2 = 0 /\ cat_pos # mouse_pos
        /\ ~IsKingNeighbour(mouse_pos, cat_pos)) =>
        LET r == move_cat(cat_pos, mouse_pos, escape_pos, SEARCH_DEPTH,
                          -Inf, Inf, TRUE)
            best == Minimax(cat_pos, mouse_pos, escape_pos, SEARCH_DEPTH, TRUE)
        IN /\ r.eval = best
           /\ \A move \in r.moves :
                Minimax(move, mouse_pos, escape_pos, SEARCH_DEPTH - 1, FALSE)
                    = best

\* the candidates of move_mouse: the neighbours of m other than the cat's cell
Candidates(m, c) == Range(Neighbours(m)) \ {c}

\* the candidates the cat cannot reach in its next move
SafeCandidates(m, c) == Candidates(m, c) \ Range(Neighbours(c))

\* the candidates of S that attain the largest value of the score
ArgMax(S, score(_)) == {p \in S : \A q \in S : score(q) <= score(p)}

\* the full tied set at the decision point move_mouse(m, c, e) is in
TiedSet(m, c, e) ==
    LET IsSafe(p) == p \in SafeCandidates(m, c)
        Score(p) == MouseScore(p, m, c, e, SelectSeq(Neighbours(m), IsSafe))
        Away(p) == calculate_manhattan_distance(p, c)
    IN IF SafeCandidates(m, c) # {}
       THEN ArgMax(SafeCandidates(m, c), Score)
       ELSE ArgMax(Candidates(m, c), Away)

\* C7: on the mouse's turn, when the escape square is not next to the mouse,
\* the positions move_mouse can return are all the candidates tied for the
\* best value, in the scored branch and in the cornered fallback.
C7_FullTiedSet ==
    (running /\ turns % 2 = 1
        /\ escape_pos \notin Range(Neighbours(mouse_pos))) =>
        move_mouse(mouse_pos, cat_pos, escape_pos)
            = TiedSet(mouse_pos, cat_pos, escape_pos)

BoardInv ==
    /\ cat_pos \in Pos
    /\ mouse_pos \in Pos
    /\ escape_pos \in Pos
    /\ \/ escape_pos[1] \in {0, 7}
       \/ escape_pos[2] \in {0, 7}

OnEdge(p) == p[1] \in {0, 7} \/ p[2] \in {0, 7}

C9_SafeWhenPossible ==
    (call.fn = "move_mouse"
        /\ escape_pos \notin Range(Neighbours(mouse_pos))
        /\ SafeCandidates(mouse_pos, cat_pos) # {}) =>
        call.move \in SafeCandidates(mouse_pos, cat_pos)

\* a call with safe and unsafe candidates, the cat next to the mouse
C9_Witness ==
    /\ call.fn = "move_mouse"
    /\ mouse_pos # escape_pos
    /\ cat_pos # escape_pos
    /\ escape_pos \notin Range(Neighbours(mouse_pos))
    /\ IsKingNeighbour(mouse_pos, cat_pos)
    /\ SafeCandidates(mouse_pos, cat_pos) # {}
    /\ SafeCandidates(mouse_pos, cat_pos) # Candidates(mouse_pos, cat_pos)
    /\ call.move \in SafeCandidates(mouse_pos, cat_pos)

\* C10: a cat's turn that starts with the mouse on a king-move neighbour of
\* the cat moves the cat onto the mouse and ends the game with CatWins, the
\* mouse not having moved.
C10_TakesTheKill ==
    [][(running /\ turns % 2 = 0 /\ IsKingNeighbour(mouse_pos, cat_pos)) =>
          /\ cat_pos' = mouse_pos
          /\ mouse_pos' = mouse_pos
          /\ ~running'
          /\ ~stopped'
          /\ reported' = <<"CatWins">>]_vars

\* the cat has just taken the mouse: the cat moved last, after the mouse had
\* moved next to it
C10_Witness ==
    /\ turns % 2 = 1
    /\ turns >= 3
    /\ ~running
    /\ cat_pos = mouse_pos
    /\ reported = <<"CatWins">>

====
